---- MODULE Spec2Model ----
(***************************************************************************)
(* The synthetic drag-and-drop dispatcher (cy.dragAndDrop) of the Cypress  *)
(* framework, the DragDropPage page object that calls it, and the page     *)
(* they act on.  One test is a body that enqueues commands, after which     *)
(* the runner executes the queue one command at a time.  The dispatcher is *)
(* modelled statement by statement; the page's drag handlers are the ones  *)
(* the dispatcher's comments describe, plus a page without handlers and a  *)
(* page whose dragstart handler also rewrites the source column.           *)
(***************************************************************************)
EXTENDS Integers, Sequences, FiniteSets, TLC

\* Bound: the number of commands one test body enqueues.
MaxCommands == 3

\* Bound: the number of tests of one spec file the retry model runs.
MaxTests == 3

\* ------------------------------------------------------------------------
\* Selectors, markup, text
\* ------------------------------------------------------------------------
FIRST_COLUMN == "#columns > .column:first-child"
LAST_COLUMN == "#columns > .column:last-child"
\* a selector that matches no element of the document
MissingSelector == "#no-such-element"

MimeType == "text/html"

columnA == "A"
columnB == "B"
MarkupA == "<header>A</header>"
MarkupB == "<header>B</header>"
\* what the rewriting dragstart handler leaves in the dragged column
Placeholder == "<header></header>"

InitialColumns == <<MarkupA, MarkupB>>

NoValue == "(none)"

\* the element (1 = first column, 2 = last column) a selector resolves to,
\* 0 when it matches nothing
Resolve(selector) ==
  IF selector = FIRST_COLUMN THEN 1
  ELSE IF selector = LAST_COLUMN THEN 2
  ELSE 0

\* text content of a column's markup
InnerText(markup) ==
  IF markup = MarkupA THEN "A"
  ELSE IF markup = MarkupB THEN "B"
  ELSE ""

\* should('contain.text', expected) on an element with the given markup
ContainsText(markup, expected) == InnerText(markup) = expected

\* ------------------------------------------------------------------------
\* DataTransfer containers: a map from MIME type to string
\* ------------------------------------------------------------------------
EmptyTransfer == [k \in {} |-> ""]

setData(container, key, value) ==
  [k \in (DOMAIN container) \cup {key} |-> IF k = key THEN value ELSE container[k]]

getData(container, key) ==
  IF key \in DOMAIN container THEN container[key] ELSE ""

\* ------------------------------------------------------------------------
\* URLs and the structure of the page
\* ------------------------------------------------------------------------
baseUrl == "https://the-internet.herokuapp.com"
DragDropUrl == "/drag_and_drop"

\* the address the browser shows after cy.visit(path): baseUrl, then the path
UrlOf(path) == <<baseUrl, path>>

\* should('include', fragment) on a URL
Includes(address, fragment) == \E i \in 1..Len(address) : address[i] = fragment

\* the attributes of a column element
ColumnAttrs == [class |-> "column", draggable |-> "true"]
InitialAttrs == <<ColumnAttrs, ColumnAttrs>>

\* find('header') on a column with the given markup yields an element
HasHeader(markup) == markup \in {MarkupA, MarkupB, Placeholder}

\* should('be.visible') on a column with the given opacity
IsVisible(op) == op # "0"

\* ------------------------------------------------------------------------
\* Commands
\* ------------------------------------------------------------------------
Cmd(method, op, a, b) == [method |-> method, op |-> op, a |-> a, b |-> b]

NoCmd == Cmd("", "", "", "")

dragAndDrop(method, sourceSelector, targetSelector) ==
  Cmd(method, "dragAndDrop", sourceSelector, targetSelector)

dragFirstToFirst == dragAndDrop("dragFirstToLast", FIRST_COLUMN, FIRST_COLUMN)

dragFirstToLast == dragAndDrop("dragFirstToLast", FIRST_COLUMN, LAST_COLUMN)

dragLastToLast == dragAndDrop("dragLastToFirst", LAST_COLUMN, LAST_COLUMN)

dragLastToFirst == dragAndDrop("dragLastToFirst", LAST_COLUMN, FIRST_COLUMN)

verifyColumnOrder(firstText, lastText) ==
  Cmd("verifyColumnOrder", "verifyColumnOrder", firstText, lastText)

\* verifyColumnOrder with its two arguments mixed up
ColumnOrderCrossed(doc, firstText, lastText) ==
  /\ ContainsText(doc[1], lastText)
  /\ ContainsText(doc[2], firstText)

\* verifyFirstColumnText(firstText) and verifyLastColumnText(lastText) pass
ColumnOrderIs(doc, firstText, lastText) ==
  /\ ContainsText(doc[1], firstText)
  /\ ContainsText(doc[2], lastText)

\* ------------------------------------------------------------------------
\* The dispatcher's events
\* ------------------------------------------------------------------------
EventOrder == <<"dragstart", "dragover", "drop", "dragend">>

DragEventNoBubble(type, dt) == [type |-> type, dataTransfer |-> dt, bubbles |-> FALSE]

\* new DragEvent(type, { dataTransfer, bubbles: true })
DragEvent(type, dt) == [type |-> type, dataTransfer |-> dt, bubbles |-> TRUE]

\* dragend dispatched on the target instead of the source
EventTargetEndOnTarget(type, source, target) ==
  IF type = "dragstart" THEN source ELSE target

\* the element each event is dispatched on
EventTarget(type, source, target) ==
  IF type \in {"dragstart", "dragend"} THEN source ELSE target

\* sourceEl.innerHTML replaced by the element's text
SourceText(doc, el) == InnerText(doc[el])

\* the source element's id (the columns have none) instead of its innerHTML
SourceId(doc, el) == ""

\* sourceEl.innerHTML
SourceMarkup(doc, el) == doc[el]

\* setData moved after the dragstart dispatch
StepAfterLateSetData(step) ==
  CASE step = "newDataTransfer" -> "dragstart"
    [] step = "dragstart" -> "setData"
    [] step = "setData" -> "dragover"
    [] step = "dragover" -> "drop"
    [] step = "drop" -> "dragend"
    [] OTHER -> "idle"

\* the dragend dispatch left out
StepAfterNoDragEnd(step) ==
  CASE step = "newDataTransfer" -> "setData"
    [] step = "setData" -> "dragstart"
    [] step = "dragstart" -> "dragover"
    [] step = "dragover" -> "drop"
    [] OTHER -> "idle"

\* the statement order inside the dispatcher's callback
StepAfter(step) ==
  CASE step = "newDataTransfer" -> "setData"
    [] step = "setData" -> "dragstart"
    [] step = "dragstart" -> "dragover"
    [] step = "dragover" -> "drop"
    [] step = "drop" -> "dragend"
    [] OTHER -> "idle"

\* ------------------------------------------------------------------------
\* State
\* ------------------------------------------------------------------------
VARIABLES
  pageKind,      \* which drag handlers the page has
  cols,          \* innerHTML of the first and the last column
  dragSrcEl,     \* the page's record of the dragged element (0 = null)
  opacity,       \* style.opacity of the two columns
  phase,         \* "body": the test body enqueues; "run": the runner executes
  queue,         \* commands enqueued and not yet started
  cur,           \* the command the runner is executing or executed last
  pc,            \* position inside the current command
  sourceEl,      \* $source[0]
  targetEl,      \* $target[0]
  dataTransfer,  \* the container of the current call (index into dts)
  dts,           \* every DataTransfer container created since the visit
  events,        \* the events dispatched on the document since the visit
  calls,         \* one record per dragAndDrop command started
  status,        \* "running" or "failed"
  failure,       \* why the test failed
  url,           \* the address the browser shows
  attrs,         \* class and draggable attribute of the two columns
  dirty          \* the previous test or attempt left the columns changed

dragVars == <<pageKind, cols, dragSrcEl, opacity, phase, queue, cur, pc, sourceEl,
              targetEl, dataTransfer, dts, events, calls, status, failure>>
frameVars == <<url, attrs, dirty>>

\* The runner's retry of failed tests
VARIABLES
  mode,          \* "run" (cypress run) or "open" (cypress open)
  testNo,        \* the test of the spec file being run
  attempt,       \* the attempt of the current test, from 1
  rstage,        \* "hook", "body", "ended" or "reported"
  hooksRun,      \* beforeEach runs for the current test
  dispatches,    \* dragAndDrop runs for the current test
  outcomes,      \* the outcome of each attempt of the current test
  reported       \* the reported result of each finished test

retryVars == <<mode, testNo, attempt, rstage, hooksRun, dispatches, outcomes, reported>>

\* The global uncaught:exception handler
VARIABLES
  errMessage,    \* err.message of the uncaught exception, letter by letter
  hstage,        \* "idle", "thrown" or "handled"
  handlerReturn, \* what the handler returned for errMessage
  testFailed     \* the runner failed the test because of the exception

handlerVars == <<errMessage, hstage, handlerReturn, testFailed>>

\* The login application as the browser and the server hold it
VARIABLES
  location,      \* the browser's URL, <<>> before the first visit
  session,       \* the server holds an authenticated session for the browser
  flash,         \* the #flash banner: its text and its class
  usernameField, \* the value of #username
  passwordField, \* the value of #password
  submitted,     \* the body of the last POST to /authenticate, if any
  lastCall,      \* the last Page Object call of the test
  cycles         \* completed login then logout cycles

loginVars == <<location, session, flash, usernameField, passwordField,
               submitted, lastCall, cycles>>

\* what the drag-and-drop model leaves alone
offDrag == <<retryVars, handlerVars, loginVars>>

vars == <<dragVars, frameVars, retryVars, handlerVars, loginVars>>

\* the retry model before its first test, and while another model runs
InitRetryVars ==
  /\ testNo = 1
  /\ attempt = 1
  /\ rstage = "hook"
  /\ hooksRun = 0
  /\ dispatches = 0
  /\ outcomes = <<>>
  /\ reported = <<>>

OffRetry == mode = "run" /\ InitRetryVars

NoFlash == [text |-> "", class |-> ""]
NoCall == [op |-> "", username |-> "", password |-> ""]

\* the browser before the first test of the login suites
OffLogin ==
  /\ location = <<>>
  /\ session = FALSE
  /\ flash = NoFlash
  /\ usernameField = ""
  /\ passwordField = ""
  /\ submitted = <<>>
  /\ lastCall = NoCall
  /\ cycles = 0

\* no uncaught exception yet
OffHandler ==
  /\ errMessage = <<>>
  /\ hstage = "idle"
  /\ handlerReturn = TRUE
  /\ testFailed = FALSE

PageKinds == {"swap", "none", "mutating"}

InitDragVars ==
  /\ cols = InitialColumns
  /\ dragSrcEl = 0
  /\ opacity = <<"1", "1">>
  /\ phase = "body"
  /\ queue = <<>>
  /\ cur = NoCmd
  /\ pc = "idle"
  /\ sourceEl = 0
  /\ targetEl = 0
  /\ dataTransfer = 0
  /\ dts = <<>>
  /\ events = <<>>
  /\ calls = <<>>
  /\ status = "running"
  /\ failure = "none"
  /\ url = UrlOf(DragDropUrl)
  /\ attrs = InitialAttrs
  /\ dirty = FALSE

OffDrag == pageKind = "swap" /\ InitDragVars

Init ==
  /\ OffRetry
  /\ OffHandler
  /\ OffLogin
  /\ pageKind \in PageKinds
  /\ cols = InitialColumns
  /\ dragSrcEl = 0
  /\ opacity = <<"1", "1">>
  /\ phase = "body"
  /\ queue = <<>>
  /\ cur = NoCmd
  /\ pc = "idle"
  /\ sourceEl = 0
  /\ targetEl = 0
  /\ dataTransfer = 0
  /\ dts = <<>>
  /\ events = <<>>
  /\ calls = <<>>
  /\ status = "running"
  /\ failure = "none"
  /\ url = UrlOf(DragDropUrl)
  /\ attrs = InitialAttrs
  /\ dirty = FALSE

runState == <<cur, pc, sourceEl, targetEl, dataTransfer, dts, events, calls,
              status, failure>>
pageState == <<pageKind, cols, dragSrcEl, opacity>>

\* ------------------------------------------------------------------------
\* The test body: enqueue commands
\* ------------------------------------------------------------------------
Enqueue(c) ==
  /\ phase = "body"
  /\ Len(queue) < MaxCommands
  /\ queue' = Append(queue, c)
  /\ UNCHANGED <<phase, runState, pageState>>
  /\ UNCHANGED <<frameVars, offDrag>>

CallDragFirstToLast == Enqueue(dragFirstToLast)

CallDragLastToFirst == Enqueue(dragLastToFirst)

\* cy.dragAndDrop called with a selector that matches nothing
CallDragAndDropMissing ==
  \E s, t \in {FIRST_COLUMN, LAST_COLUMN, MissingSelector} :
    /\ MissingSelector \in {s, t}
    /\ Enqueue(dragAndDrop("dragAndDrop", s, t))

CallVerifyColumnOrder ==
  \E p \in {<<columnA, columnB>>, <<columnB, columnA>>} :
    Enqueue(verifyColumnOrder(p[1], p[2]))

\* the test body returns; the runner starts on the queue
BodyReturns ==
  /\ phase = "body"
  /\ phase' = "run"
  /\ UNCHANGED <<queue, runState, pageState>>
  /\ UNCHANGED <<frameVars, offDrag>>

\* ------------------------------------------------------------------------
\* The runner: one command at a time
\* ------------------------------------------------------------------------
Running == phase = "run" /\ status = "running"

NewCall(c) ==
  [method |-> c.method, source |-> c.a, target |-> c.b, doc |-> cols,
   dataTransfer |-> 0, first |-> Len(events) + 1, before |-> NoValue,
   read |-> NoValue, after |-> <<>>, state |-> "started", url |-> url]

RunNext ==
  /\ Running
  /\ pc = "idle"
  /\ queue # <<>>
  /\ cur' = Head(queue)
  /\ queue' = Tail(queue)
  /\ IF Head(queue).op = "dragAndDrop"
       THEN /\ pc' = "getSource"
            /\ calls' = Append(calls, NewCall(Head(queue)))
       ELSE /\ pc' = "verify"
            /\ calls' = calls
  /\ UNCHANGED <<phase, sourceEl, targetEl, dataTransfer, dts, events, status,
                 failure, pageState>>
  /\ UNCHANGED <<frameVars, offDrag>>

LookupFails ==
  /\ status' = "failed"
  /\ failure' = "lookup"
  /\ pc' = "idle"
  /\ calls' = [calls EXCEPT ![Len(calls)].state = "lookupFailed"]

\* cy.get(sourceSelector).then(($source) => ...
GetSource ==
  /\ Running
  /\ pc = "getSource"
  /\ IF Resolve(cur.a) = 0
       THEN LookupFails /\ UNCHANGED sourceEl
       ELSE /\ sourceEl' = Resolve(cur.a)
            /\ pc' = "getTarget"
            /\ UNCHANGED <<status, failure, calls>>
  /\ UNCHANGED <<phase, queue, cur, targetEl, dataTransfer, dts, events, pageState>>
  /\ UNCHANGED <<frameVars, offDrag>>

\* a lookup of the target that yields nothing instead of failing
GetTargetSilent ==
  /\ Running
  /\ pc = "getTarget"
  /\ targetEl' = Resolve(cur.b)
  /\ pc' = "newDataTransfer"
  /\ UNCHANGED <<status, failure, calls>>
  /\ UNCHANGED <<phase, queue, cur, sourceEl, dataTransfer, dts, events, pageState>>
  /\ UNCHANGED <<frameVars, offDrag>>

\* cy.get(targetSelector).then(($target) => ...
GetTarget ==
  /\ Running
  /\ pc = "getTarget"
  /\ IF Resolve(cur.b) = 0
       THEN LookupFails /\ UNCHANGED targetEl
       ELSE /\ targetEl' = Resolve(cur.b)
            /\ pc' = "newDataTransfer"
            /\ UNCHANGED <<status, failure, calls>>
  /\ UNCHANGED <<phase, queue, cur, sourceEl, dataTransfer, dts, events, pageState>>
  /\ UNCHANGED <<frameVars, offDrag>>

\* one container kept for all calls
NewDataTransferShared ==
  /\ Running
  /\ pc = "newDataTransfer"
  /\ dts' = IF dts = <<>> THEN <<EmptyTransfer>> ELSE dts
  /\ dataTransfer' = 1
  /\ calls' = [calls EXCEPT ![Len(calls)].dataTransfer = 1]
  /\ pc' = StepAfter(pc)
  /\ UNCHANGED <<phase, queue, cur, sourceEl, targetEl, events, status, failure,
                 pageState>>
  /\ UNCHANGED <<frameVars, offDrag>>

\* const dataTransfer = new DataTransfer()
NewDataTransfer ==
  /\ Running
  /\ pc = "newDataTransfer"
  /\ dts' = Append(dts, EmptyTransfer)
  /\ dataTransfer' = Len(dts) + 1
  /\ calls' = [calls EXCEPT ![Len(calls)].dataTransfer = Len(dts) + 1]
  /\ pc' = StepAfter(pc)
  /\ UNCHANGED <<phase, queue, cur, sourceEl, targetEl, events, status, failure,
                 pageState>>
  /\ UNCHANGED <<frameVars, offDrag>>

\* dataTransfer.setData('text/html', sourceEl.innerHTML)
SetData ==
  /\ Running
  /\ pc = "setData"
  /\ dts' = [dts EXCEPT ![dataTransfer] =
               setData(@, MimeType, SourceMarkup(cols, sourceEl))]
  /\ pc' = StepAfter(pc)
  /\ UNCHANGED <<phase, queue, cur, sourceEl, targetEl, dataTransfer, events,
                 calls, status, failure, pageState>>
  /\ UNCHANGED <<frameVars, offDrag>>

\* el.dispatchEvent(ev): what a listener on the document observes
dispatchEvent(el, ev) ==
  [target |-> el, type |-> ev.type, dataTransfer |-> ev.dataTransfer,
   bubbles |-> ev.bubbles, data |-> getData(dts[ev.dataTransfer], MimeType)]

Dispatched(type) ==
  Append(events, dispatchEvent(EventTarget(type, sourceEl, targetEl),
                               DragEvent(type, dataTransfer)))

\* the page's dragstart handler: dim the column, remember it, store its
\* markup in the container (the store may or may not persist); the rewriting
\* page then replaces the column's content
handleDragStart(el) ==
  IF pageKind = "none"
    THEN UNCHANGED <<cols, dragSrcEl, opacity, dts>>
    ELSE /\ dragSrcEl' = el
         /\ opacity' = [opacity EXCEPT ![el] = "0.4"]
         /\ \E persists \in BOOLEAN :
              dts' = IF persists
                       THEN [dts EXCEPT ![dataTransfer] = setData(@, MimeType, cols[el])]
                       ELSE dts
         /\ cols' = IF pageKind = "mutating"
                      THEN [cols EXCEPT ![el] = Placeholder]
                      ELSE cols

DispatchDragStart ==
  /\ Running
  /\ pc = "dragstart"
  /\ events' = Dispatched("dragstart")
  /\ calls' = [calls EXCEPT ![Len(calls)].before = cols[sourceEl]]
  /\ handleDragStart(EventTarget("dragstart", sourceEl, targetEl))
  /\ pc' = StepAfter(pc)
  /\ UNCHANGED <<pageKind, phase, queue, cur, sourceEl, targetEl, dataTransfer,
                 status, failure>>
  /\ UNCHANGED <<frameVars, offDrag>>

\* the page's dragover handler only calls preventDefault()
DispatchDragOver ==
  /\ Running
  /\ pc = "dragover"
  /\ events' = Dispatched("dragover")
  /\ pc' = StepAfter(pc)
  /\ UNCHANGED <<phase, queue, cur, sourceEl, targetEl, dataTransfer, dts, calls,
                 status, failure, pageState>>
  /\ UNCHANGED <<frameVars, offDrag>>

\* a drop that also navigates the page to a fragment
DispatchDropNavigates ==
  /\ Running
  /\ pc = "drop"
  /\ events' = Dispatched("drop")
  /\ LET el == EventTarget("drop", sourceEl, targetEl)
         data == getData(dts[dataTransfer], MimeType)
     IN IF pageKind = "none"
          THEN UNCHANGED <<cols, calls>>
          ELSE /\ cols' = [[cols EXCEPT ![dragSrcEl] = cols[el]] EXCEPT ![el] = data]
               /\ calls' = [calls EXCEPT ![Len(calls)].read = data]
  /\ pc' = StepAfter(pc)
  /\ UNCHANGED <<pageKind, dragSrcEl, opacity, phase, queue, cur, sourceEl,
                 targetEl, dataTransfer, dts, status, failure>>
  /\ url' = Append(url, "#dropped")
  /\ UNCHANGED <<attrs, dirty, offDrag>>

\* the page's drop handler:
\*   dragSrcEl.innerHTML = this.innerHTML;
\*   this.innerHTML = e.dataTransfer.getData('text/html');
DispatchDrop ==
  /\ Running
  /\ pc = "drop"
  /\ events' = Dispatched("drop")
  /\ LET el == EventTarget("drop", sourceEl, targetEl)
         data == getData(dts[dataTransfer], MimeType)
     IN IF pageKind = "none"
          THEN UNCHANGED <<cols, calls>>
          ELSE /\ cols' = [[cols EXCEPT ![dragSrcEl] = cols[el]] EXCEPT ![el] = data]
               /\ calls' = [calls EXCEPT ![Len(calls)].read = data]
  /\ pc' = StepAfter(pc)
  /\ UNCHANGED <<pageKind, dragSrcEl, opacity, phase, queue, cur, sourceEl,
                 targetEl, dataTransfer, dts, status, failure>>
  /\ UNCHANGED <<frameVars, offDrag>>

\* the page's dragend handler restores the opacity; the callback returns
DispatchDragEnd ==
  /\ Running
  /\ pc = "dragend"
  /\ events' = Dispatched("dragend")
  /\ opacity' = IF pageKind = "none" THEN opacity ELSE <<"1", "1">>
  /\ calls' = [calls EXCEPT ![Len(calls)].after = cols,
                            ![Len(calls)].state = "done"]
  /\ pc' = StepAfter(pc)
  /\ UNCHANGED <<pageKind, cols, dragSrcEl, phase, queue, cur, sourceEl, targetEl,
                 dataTransfer, dts, status, failure>>
  /\ UNCHANGED <<frameVars, offDrag>>

\* verifyColumnOrder: both should('contain.text') assertions
Verify ==
  /\ Running
  /\ pc = "verify"
  /\ pc' = "idle"
  /\ IF ColumnOrderIs(cols, cur.a, cur.b)
       THEN UNCHANGED <<status, failure>>
       ELSE status' = "failed" /\ failure' = "assertion"
  /\ UNCHANGED <<phase, queue, cur, sourceEl, targetEl, dataTransfer, dts, events,
                 calls, pageState>>
  /\ UNCHANGED <<frameVars, offDrag>>

\* a beforeEach that does not load the page again
VisitKeepsPage ==
  /\ phase = "run"
  /\ pc = "idle"
  /\ queue = <<>> \/ status = "failed"
  /\ cols' = cols
  /\ dragSrcEl' = 0
  /\ opacity' = <<"1", "1">>
  /\ phase' = "body"
  /\ queue' = <<>>
  /\ cur' = NoCmd
  /\ pc' = "idle"
  /\ sourceEl' = 0
  /\ targetEl' = 0
  /\ dataTransfer' = 0
  /\ dts' = <<>>
  /\ events' = <<>>
  /\ calls' = <<>>
  /\ status' = "running"
  /\ failure' = "none"
  /\ url' = UrlOf(DragDropUrl)
  /\ attrs' = InitialAttrs
  /\ dirty' = (cols # InitialColumns)
  /\ UNCHANGED <<pageKind, offDrag>>

\* beforeEach of the next test: visit() loads the page again
Visit ==
  /\ phase = "run"
  /\ pc = "idle"
  /\ queue = <<>> \/ status = "failed"
  /\ cols' = InitialColumns
  /\ dragSrcEl' = 0
  /\ opacity' = <<"1", "1">>
  /\ phase' = "body"
  /\ queue' = <<>>
  /\ cur' = NoCmd
  /\ pc' = "idle"
  /\ sourceEl' = 0
  /\ targetEl' = 0
  /\ dataTransfer' = 0
  /\ dts' = <<>>
  /\ events' = <<>>
  /\ calls' = <<>>
  /\ status' = "running"
  /\ failure' = "none"
  /\ url' = UrlOf(DragDropUrl)
  /\ attrs' = InitialAttrs
  /\ dirty' = (cols # InitialColumns)
  /\ UNCHANGED <<pageKind, offDrag>>

Next ==
  \/ CallDragFirstToLast
  \/ CallDragLastToFirst
  \/ CallDragAndDropMissing
  \/ CallVerifyColumnOrder
  \/ BodyReturns
  \/ RunNext
  \/ GetSource
  \/ GetTarget
  \/ NewDataTransfer
  \/ SetData
  \/ DispatchDragStart
  \/ DispatchDragOver
  \/ DispatchDrop
  \/ DispatchDragEnd
  \/ Verify
  \/ Visit

Spec == Init /\ [][Next]_vars

\* ------------------------------------------------------------------------
\* Retries of a failed test
\* ------------------------------------------------------------------------
RunModeRetries == 2
OpenModeRetries == 0

\* the two retry counts mixed up
RetriesForCrossed(m) == IF m = "run" THEN OpenModeRetries ELSE RunModeRetries

\* retries: { runMode: 2, openMode: 0 }
RetriesFor(m) == IF m = "run" THEN RunModeRetries ELSE OpenModeRetries

offRetry == <<dragVars, frameVars, handlerVars, loginVars>>

InitRetry ==
  /\ OffDrag
  /\ OffHandler
  /\ OffLogin
  /\ mode \in {"run", "open"}
  /\ InitRetryVars

\* an attempt starts with the beforeEach hooks
RunBeforeEach ==
  /\ rstage = "hook"
  /\ hooksRun' = hooksRun + 1
  /\ rstage' = "body"
  /\ UNCHANGED <<mode, testNo, attempt, dispatches, outcomes, reported, offRetry>>

\* the test body runs its drag and its assertions, and passes or fails
RunTestBody ==
  /\ rstage = "body"
  /\ dispatches' = dispatches + 1
  /\ \E outcome \in {"passed", "failed"} : outcomes' = Append(outcomes, outcome)
  /\ rstage' = "ended"
  /\ UNCHANGED <<mode, testNo, attempt, hooksRun, reported, offRetry>>

\* a failed attempt with retries left: the test is run again from scratch
RetryTest ==
  /\ rstage = "ended"
  /\ outcomes[Len(outcomes)] = "failed"
  /\ attempt <= RetriesFor(mode)
  /\ attempt' = attempt + 1
  /\ rstage' = "hook"
  /\ UNCHANGED <<mode, testNo, hooksRun, dispatches, outcomes, reported, offRetry>>

\* a passed attempt, or a failed one with no retry left: the result is final
ReportTest ==
  /\ rstage = "ended"
  /\ outcomes[Len(outcomes)] = "passed" \/ attempt > RetriesFor(mode)
  /\ reported' = Append(reported, outcomes[Len(outcomes)])
  /\ rstage' = "reported"
  /\ UNCHANGED <<mode, testNo, attempt, hooksRun, dispatches, outcomes, offRetry>>

\* the next test of the spec file
NextTest ==
  /\ rstage = "reported"
  /\ testNo < MaxTests
  /\ testNo' = testNo + 1
  /\ attempt' = 1
  /\ rstage' = "hook"
  /\ hooksRun' = 0
  /\ dispatches' = 0
  /\ outcomes' = <<>>
  /\ UNCHANGED <<mode, reported, offRetry>>

NextRetry ==
  \/ RunBeforeEach
  \/ RunTestBody
  \/ RetryTest
  \/ ReportTest
  \/ NextTest

SpecRetry == InitRetry /\ [][NextRetry]_vars

\* ------------------------------------------------------------------------
\* The uncaught:exception handler
\* ------------------------------------------------------------------------
\* 'Cannot read properties of null'
NullPattern ==
  <<"C", "a", "n", "n", "o", "t", " ", "r", "e", "a", "d", " ", "p", "r",
  "o", "p", "e", "r", "t", "i", "e", "s", " ", "o", "f", " ", "n", "u", "l",
  "l">>

\* 'Script error'
ScriptPattern ==
  <<"S", "c", "r", "i", "p", "t", " ", "e", "r", "r", "o", "r">>

\* a message of another error
UndefinedText ==
  <<"C", "a", "n", "n", "o", "t", " ", "r", "e", "a", "d", " ", "p", "r",
  "o", "p", "e", "r", "t", "i", "e", "s", " ", "o", "f", " ", "u", "n", "d",
  "e", "f", "i", "n", "e", "d">>

\* 'Script error' in another case
LowerScriptText ==
  <<"s", "c", "r", "i", "p", "t", " ", "e", "r", "r", "o", "r">>

\* the first pattern without its last letter
NullTextCut ==
  <<"C", "a", "n", "n", "o", "t", " ", "r", "e", "a", "d", " ", "p", "r",
  "o", "p", "e", "r", "t", "i", "e", "s", " ", "o", "f", " ", "n", "u",
  "l">>

\* a message of another error
ResizeText ==
  <<"R", "e", "s", "i", "z", "e", "O", "b", "s", "e", "r", "v", "e", "r",
  " ", "l", "o", "o", "p", " ", "l", "i", "m", "i", "t", " ", "e", "x", "c",
  "e", "e", "d", "e", "d">>

\* what a browser puts before a message
UncaughtPrefix ==
  <<"U", "n", "c", "a", "u", "g", "h", "t", " ", "T", "y", "p", "e", "E",
  "r", "r", "o", "r", ":", " ">>

\* a prefix that ends in the middle of a word
JavaPrefix ==
  <<"J", "a", "v", "a">>

\* what a browser puts after a null reference message
ReadingSuffix ==
  <<" ", "(", "r", "e", "a", "d", "i", "n", "g", " ", "'", "s", "t", "y",
  "l", "e", "'", ")">>

\* a full stop
DotSuffix ==
  <<".">>

\* a single letter
LetterSuffix ==
  <<"l">>

\* the messages the application's scripts throw
Prefixes == {<<>>, UncaughtPrefix, JavaPrefix, <<" ">>}
Cores == {<<>>, NullPattern, ScriptPattern, UndefinedText, LowerScriptText,
          NullTextCut, ResizeText, ScriptPattern \o <<" ">> \o NullPattern}
Suffixes == {<<>>, ReadingSuffix, DotSuffix, LetterSuffix}
Messages == {p \o c \o x : p \in Prefixes, c \in Cores, x \in Suffixes}

\* String.includes: a case-sensitive substring search
includes(message, pattern) ==
  \E i \in 0..(Len(message) - Len(pattern)) :
    SubSeq(message, i + 1, i + Len(pattern)) = pattern

\* the handler without its second check
uncaughtExceptionNullOnly(message) ==
  IF includes(message, NullPattern) THEN FALSE
  ELSE TRUE

\* Cypress.on('uncaught:exception', (err) => ...)
uncaughtException(message) ==
  IF includes(message, NullPattern) THEN FALSE
  ELSE IF includes(message, ScriptPattern) THEN FALSE
  ELSE TRUE

offHandler == <<dragVars, frameVars, retryVars, loginVars>>

InitHandler ==
  /\ OffDrag
  /\ OffRetry
  /\ OffLogin
  /\ OffHandler

\* a script of the application throws and nothing catches it
AppThrows ==
  /\ hstage = "idle"
  /\ \E m \in Messages : errMessage' = m
  /\ hstage' = "thrown"
  /\ UNCHANGED <<handlerReturn, testFailed, offHandler>>

\* the handler runs; the runner fails the test unless it returned false
HandlerReturns ==
  /\ hstage = "thrown"
  /\ handlerReturn' = uncaughtException(errMessage)
  /\ testFailed' = uncaughtException(errMessage)
  /\ hstage' = "handled"
  /\ UNCHANGED <<errMessage, offHandler>>

\* the exception was ignored: the test continues
TestContinues ==
  /\ hstage = "handled"
  /\ ~testFailed
  /\ hstage' = "idle"
  /\ UNCHANGED <<errMessage, handlerReturn, testFailed, offHandler>>

\* the test failed: the next test starts
TestFailsNextStarts ==
  /\ hstage = "handled"
  /\ testFailed
  /\ hstage' = "idle"
  /\ testFailed' = FALSE
  /\ UNCHANGED <<errMessage, handlerReturn, offHandler>>

NextHandler ==
  \/ AppThrows
  \/ HandlerReturns
  \/ TestContinues
  \/ TestFailsNextStarts

SpecHandler == InitHandler /\ [][NextHandler]_vars

\* ------------------------------------------------------------------------
\* The login application and its Page Objects
\* ------------------------------------------------------------------------
MaxCycles == 2

LoginUrl == "/login"
SecureUrl == "/secure"

\* SELECTORS of LoginPage and SecureAreaPage
USERNAME_INPUT == "#username"
PASSWORD_INPUT == "#password"
SUBMIT_BUTTON == "button[type=\"submit\"]"
FLASH_MESSAGE == "#flash"
PAGE_HEADING == "h2"
LOGOUT_BUTTON == "a.button[href=\"/logout\"]"

\* users.validUser
ValidUsername == "tomsmith"
ValidPassword == "SuperSecretPassword!"

\* what the tests type: type() takes no empty string, so a field is empty
\* only when nothing was typed into it
Usernames == {ValidUsername, "TOMSMITH", "   "}
Passwords == {ValidPassword, "   "}

\* messages.json, by key where the text is not quoted in the tests
LoginSuccess == "You logged into a secure area!"
LogoutSuccess == "messages.logoutSuccess"
InvalidUsername == "messages.invalidUsername"
InvalidPassword == "messages.invalidPassword"
UnknownMessage == "unknown"

Banner(text, class) == [text |-> text, class |-> class]

\* the elements verifyPageLoaded expects on the page at an address
Rendered(address, banner) ==
  (IF Includes(address, LoginUrl)
     THEN {PAGE_HEADING, USERNAME_INPUT, PASSWORD_INPUT, SUBMIT_BUTTON}
   ELSE IF Includes(address, SecureUrl)
     THEN {PAGE_HEADING, LOGOUT_BUTTON}
   ELSE {})
  \cup (IF banner = NoFlash THEN {} ELSE {FLASH_MESSAGE})

Form(username, password) == [username |-> username, password |-> password]

\* clear().type(value) on one field of the form
typeUsername(form, username) == [form EXCEPT !.username = username]
typePassword(form, password) == [form EXCEPT !.password = password]

\* LoginPage.login without typePassword
loginSkipsPassword(form, username, password) ==
  typeUsername(form, username)

\* LoginPage.login up to the click: the form it submits
login(form, username, password) ==
  typePassword(typeUsername(form, username), password)

\* the server checks the password before the username
authenticatePasswordFirst(username, password) ==
  IF password # ValidPassword THEN InvalidPassword
  ELSE IF username # ValidUsername THEN InvalidUsername
  ELSE LoginSuccess

\* POST /authenticate: the server validates the username before the password
authenticate(username, password) ==
  IF username # ValidUsername THEN InvalidUsername
  ELSE IF password # ValidPassword THEN InvalidPassword
  ELSE LoginSuccess

\* GET /secure served to everybody
secureRouteOpen(authenticated) == SecureUrl

\* GET /secure: unauthenticated users are redirected to /login
secureRoute(authenticated) ==
  IF authenticated THEN SecureUrl ELSE LoginUrl

\* GET /logout leaves the session alone
keepSession(authenticated) == authenticated

\* GET /logout destroys the session
destroySession(authenticated) == FALSE

\* GET /logout redirects to the secure area
LogoutStays == SecureUrl

\* GET /logout redirects back to /login
LogoutRedirect == LoginUrl

offLogin == <<dragVars, frameVars, retryVars, handlerVars>>

InitLogin ==
  /\ OffDrag
  /\ OffRetry
  /\ OffHandler
  /\ OffLogin

\* a test starts with a clean browser; beforeEach visits /login
StartTest ==
  /\ location' = UrlOf(LoginUrl)
  /\ session' = FALSE
  /\ flash' = NoFlash
  /\ usernameField' = ""
  /\ passwordField' = ""
  /\ submitted' = <<>>
  /\ lastCall' = [NoCall EXCEPT !.op = "visit"]
  /\ UNCHANGED <<cycles, offLogin>>

\* the form is sent and the server's answer is rendered
Submit(form, call) ==
  LET answer == authenticate(form.username, form.password)
      accepted == answer = LoginSuccess
  IN /\ submitted' = <<form>>
     /\ session' = (session \/ accepted)
     /\ location' = UrlOf(IF accepted THEN SecureUrl ELSE LoginUrl)
     /\ flash' = Banner(answer, IF accepted THEN "success" ELSE "error")
     /\ usernameField' = ""
     /\ passwordField' = ""
     /\ lastCall' = call
     /\ UNCHANGED <<cycles, offLogin>>

\* loginPage.visit() in the middle of a test, after a logout or a rejection
VisitLogin ==
  /\ location # <<>>
  /\ ~session
  /\ location' = UrlOf(LoginUrl)
  /\ flash' = NoFlash
  /\ usernameField' = ""
  /\ passwordField' = ""
  /\ lastCall' = [NoCall EXCEPT !.op = "visit"]
  /\ UNCHANGED <<session, submitted, cycles, offLogin>>

\* loginPage.typeUsername(username)
TypeUsername ==
  /\ USERNAME_INPUT \in Rendered(location, flash)
  /\ \E username \in Usernames :
       /\ usernameField' =
            typeUsername(Form(usernameField, passwordField), username).username
       /\ lastCall' = [NoCall EXCEPT !.op = "typeUsername",
                                     !.username = username]
  /\ UNCHANGED <<location, session, flash, passwordField, submitted, cycles,
                 offLogin>>

\* loginPage.typePassword(password)
TypePassword ==
  /\ PASSWORD_INPUT \in Rendered(location, flash)
  /\ \E password \in Passwords :
       /\ passwordField' =
            typePassword(Form(usernameField, passwordField), password).password
       /\ lastCall' = [NoCall EXCEPT !.op = "typePassword",
                                     !.password = password]
  /\ UNCHANGED <<location, session, flash, usernameField, submitted, cycles,
                 offLogin>>

\* loginPage.clickSubmit(): the form goes out as the fields stand
ClickSubmit ==
  /\ SUBMIT_BUTTON \in Rendered(location, flash)
  /\ Submit(Form(usernameField, passwordField),
            [NoCall EXCEPT !.op = "clickSubmit"])

\* loginPage.login(username, password)
Login ==
  /\ {USERNAME_INPUT, PASSWORD_INPUT, SUBMIT_BUTTON}
       \subseteq Rendered(location, flash)
  /\ \E username \in Usernames, password \in Passwords :
       Submit(login(Form(usernameField, passwordField), username, password),
              [op |-> "login", username |-> username, password |-> password])

\* secureAreaPage.clickLogout(): the anchor navigates to /logout
ClickLogout ==
  /\ LOGOUT_BUTTON \in Rendered(location, flash)
  /\ cycles < MaxCycles
  /\ session' = destroySession(session)
  /\ location' = UrlOf(LogoutRedirect)
  /\ flash' = Banner(LogoutSuccess, "success")
  /\ usernameField' = ""
  /\ passwordField' = ""
  /\ cycles' = cycles + 1
  /\ lastCall' = [NoCall EXCEPT !.op = "clickLogout"]
  /\ UNCHANGED <<submitted, offLogin>>

\* cy.visit('/secure', { failOnStatusCode: false }); the tests say nothing
\* about the banner of the page that answers
VisitSecure ==
  /\ location # <<>>
  /\ location' = UrlOf(secureRoute(session))
  /\ flash' \in {NoFlash, Banner(UnknownMessage, "error")}
  /\ usernameField' = ""
  /\ passwordField' = ""
  /\ lastCall' = [NoCall EXCEPT !.op = "visitSecure"]
  /\ UNCHANGED <<session, submitted, cycles, offLogin>>

NextLogin ==
  \/ StartTest
  \/ VisitLogin
  \/ TypeUsername
  \/ TypePassword
  \/ ClickSubmit
  \/ Login
  \/ ClickLogout
  \/ VisitSecure

SpecLogin == InitLogin /\ [][NextLogin]_vars

\* ------------------------------------------------------------------------
\* Properties
\* ------------------------------------------------------------------------
CallIds == 1..Len(calls)
DoneCalls == {k \in CallIds : calls[k].state = "done"}
SourceOf(k) == Resolve(calls[k].source)
TargetOf(k) == Resolve(calls[k].target)
\* the index of the last event dispatched before the next call started
LastEventOf(k) == IF k < Len(calls) THEN calls[k + 1].first - 1 ELSE Len(events)
\* what a listener observes of the n-th event of call k
Observed(k, n) ==
  LET e == events[calls[k].first + n - 1]
  IN <<e.type, e.target, e.bubbles, e.data>>
Swapped == <<MarkupB, MarkupA>>

\* C1: every completed dragAndDrop(source, target) call has dispatched exactly
\* four events, in the order dragstart on the source, dragover on the target,
\* drop on the target, dragend on the source.
C1_FourEventsInOrder ==
  \A k \in DoneCalls :
    LET f == calls[k].first
    IN /\ LastEventOf(k) = f + 3
       /\ \A n \in 1..4 : events[f + n - 1].type = EventOrder[n]
       /\ events[f].target = SourceOf(k)
       /\ events[f + 1].target = TargetOf(k)
       /\ events[f + 2].target = TargetOf(k)
       /\ events[f + 3].target = SourceOf(k)

C1_Witness ==
  \E k \in DoneCalls : SourceOf(k) = 2 /\ TargetOf(k) = 1 /\ events[calls[k].first + 3].target = 2

C3_SwapAB ==
  pageKind # "none" =>
    \A k \in DoneCalls :
      (/\ InnerText(calls[k].doc[SourceOf(k)]) = columnA
       /\ InnerText(calls[k].doc[TargetOf(k)]) = columnB)
      => /\ InnerText(calls[k].after[SourceOf(k)]) = columnB
         /\ InnerText(calls[k].after[TargetOf(k)]) = columnA

C3_Witness ==
  /\ pageKind = "swap"
  /\ \E k \in DoneCalls :
       /\ calls[k].doc = InitialColumns
       /\ SourceOf(k) = 1
       /\ TargetOf(k) = 2
       /\ calls[k].after = Swapped

\* C4: on a page with swap-on-drop handlers, after n successive completed
\* dragFirstToLast calls from the initial A-B order the columns are in B-A
\* order when n is odd and in A-B order when n is even (n = 0 included).
C4_Parity ==
  (/\ pageKind # "none"
   /\ \A k \in CallIds : calls[k].method = "dragFirstToLast" /\ k \in DoneCalls)
  => cols = IF Len(calls) % 2 = 1 THEN Swapped ELSE InitialColumns

C4_Witness ==
  /\ pageKind = "swap"
  /\ Len(calls) = 2
  /\ \A k \in CallIds : calls[k].method = "dragFirstToLast" /\ k \in DoneCalls
  /\ calls[1].after = Swapped
  /\ cols = InitialColumns

\* C5: from the same column state dragLastToFirst ends in the same column
\* order as dragFirstToLast, and a dragFirstToLast followed by a
\* dragLastToFirst restores the order that held before the two calls.
C5_BothDirectionsSwap ==
  /\ \A i, j \in DoneCalls :
       (/\ calls[i].method = "dragFirstToLast"
        /\ calls[j].method = "dragLastToFirst"
        /\ calls[i].doc = calls[j].doc)
       => calls[i].after = calls[j].after
  /\ \A i \in DoneCalls :
       (/\ i + 1 \in DoneCalls
        /\ calls[i].method = "dragFirstToLast"
        /\ calls[i + 1].method = "dragLastToFirst")
       => calls[i + 1].after = calls[i].doc

C5_Witness ==
  /\ pageKind = "swap"
  /\ \E i \in DoneCalls :
       /\ i + 1 \in DoneCalls
       /\ calls[i].method = "dragFirstToLast"
       /\ calls[i + 1].method = "dragLastToFirst"
       /\ calls[i].after = Swapped
       /\ cols = calls[i].doc

\* C6: the markup the drop handler reads from the container under 'text/html'
\* is the source's markup as it was immediately before dragstart, whatever the
\* dragstart handler did to the source afterwards.
C6_DropReadsSnapshot ==
  \A k \in CallIds :
    calls[k].read # NoValue =>
      /\ calls[k].before # NoValue
      /\ calls[k].read = calls[k].before

C6_Witness ==
  /\ pageKind = "mutating"
  /\ pc = "dragend"
  /\ calls[Len(calls)].read = MarkupA
  /\ calls[Len(calls)].before = MarkupA
  /\ cols[TargetOf(Len(calls))] = MarkupA

\* C7: when the source or the target selector resolves to no element, the
\* lookup fails, the test fails, and no event of that call is dispatched.
C7_LookupFailsFirst ==
  \A k \in CallIds :
    (SourceOf(k) = 0 \/ TargetOf(k) = 0) =>
      /\ calls[k].state # "done"
      /\ Len(events) < calls[k].first
      /\ calls[k].dataTransfer = 0
      /\ (pc = "idle" => status = "failed" /\ failure = "lookup")

C7_Witness ==
  /\ status = "failed"
  /\ failure = "lookup"
  /\ Resolve(cur.a) = 1
  /\ Resolve(cur.b) = 0
  /\ sourceEl = 1
  /\ Len(calls) = 2
  /\ Len(events) = 4

\* C8: on a page without drag handlers a dragAndDrop with resolvable selectors
\* still dispatches its four events and completes, the columns keep their
\* content, and the test fails only at a later verifyColumnOrder for the
\* swapped order.
C8_IgnoredDragFailsOnlyAtAssertion ==
  pageKind = "none" =>
    /\ cols = InitialColumns
    /\ \A k \in CallIds :
         (SourceOf(k) # 0 /\ TargetOf(k) # 0 /\ (k < Len(calls) \/ pc \in {"idle", "verify"}))
         => k \in DoneCalls /\ LastEventOf(k) = calls[k].first + 3
    /\ failure = "assertion" => cur.op = "verifyColumnOrder"
    /\ (cur.op = "verifyColumnOrder" /\ pc = "idle") =>
         IF cur.a = columnB /\ cur.b = columnA
           THEN status = "failed" /\ failure = "assertion"
           ELSE status = "running"

C8_Witness ==
  /\ pageKind = "none"
  /\ status = "failed"
  /\ failure = "assertion"
  /\ cur = verifyColumnOrder(columnB, columnA)
  /\ 1 \in DoneCalls
  /\ Len(events) = 4

\* C9: the event trace is a concatenation of complete dragstart, dragover,
\* drop, dragend groups, one per call and in call order; a call's group is
\* complete before the next command starts.
C9_NoInterleaving ==
  /\ \A i \in 1..Len(events) :
       LET b == ((i - 1) \div 4) + 1
       IN /\ events[i].type = EventOrder[((i - 1) % 4) + 1]
          /\ b \in CallIds
          /\ calls[b].first = 4 * (b - 1) + 1
          /\ events[i].dataTransfer = calls[b].dataTransfer
  /\ pc \in {"idle", "getSource", "getTarget", "newDataTransfer", "setData", "verify"} =>
       /\ Len(events) % 4 = 0
       /\ Len(events) = 4 * Cardinality(DoneCalls)

C9_Witness ==
  /\ Len(events) = 4 * MaxCommands
  /\ Cardinality(DoneCalls) = MaxCommands

\* C10: every call uses a container of its own, and two calls that start from
\* the same column state with the same (source, target) dispatch the same
\* events with the same payload, whatever calls came before them.
C10_Stateless ==
  /\ \A i, j \in CallIds :
       (i < j /\ calls[j].dataTransfer > 0) => calls[i].dataTransfer # calls[j].dataTransfer
  /\ \A i, j \in DoneCalls :
       (/\ i < j
        /\ calls[i].doc = calls[j].doc
        /\ calls[i].source = calls[j].source
        /\ calls[i].target = calls[j].target)
       => \A n \in 1..4 : Observed(i, n) = Observed(j, n)

C10_Witness ==
  \E i, j \in DoneCalls :
    /\ j = i + 2
    /\ calls[i].doc = calls[j].doc
    /\ calls[i].doc # calls[i + 1].doc
    /\ calls[i].source = calls[j].source
    /\ calls[i].target = calls[j].target
    /\ calls[i].dataTransfer # calls[j].dataTransfer

\* C11: a drag-and-drop never changes the URL: after a completed
\* dragFirstToLast the URL is the one the call started with and it still
\* contains '/drag_and_drop'.
C11_UrlUnchanged ==
  \A k \in DoneCalls :
    calls[k].method = "dragFirstToLast" =>
      /\ url = calls[k].url
      /\ Includes(url, DragDropUrl)

C11_Witness ==
  /\ pageKind = "swap"
  /\ 1 \in DoneCalls
  /\ calls[1].method = "dragFirstToLast"
  /\ cols = Swapped
  /\ url = UrlOf(DragDropUrl)

\* C12: a completed drag changes only the inner content of the two columns:
\* there are still exactly two columns, both visible, both with
\* draggable="true" and the class 'column', each containing a header.
C12_StructurePreserved ==
  (DoneCalls # {} /\ pc \in {"idle", "verify"}) =>
    /\ Len(cols) = 2
    /\ Len(attrs) = 2
    /\ \A i \in 1..2 :
         /\ IsVisible(opacity[i])
         /\ attrs[i].draggable = "true"
         /\ attrs[i].class = "column"
         /\ HasHeader(cols[i])

C12_Witness ==
  /\ pageKind = "mutating"
  /\ pc = "idle"
  /\ Cardinality(DoneCalls) = 2
  /\ cols = InitialColumns
  /\ opacity = <<"1", "1">>

\* C13: when a test body starts, the columns are in the initial A-B order,
\* whatever the previous test or attempt did to them.
C13_FreshPageAtTestStart ==
  phase = "body" =>
    /\ cols = InitialColumns
    /\ dragSrcEl = 0
    /\ events = <<>>
    /\ status = "running"

C13_Witness ==
  /\ phase = "body"
  /\ dirty
  /\ cols = InitialColumns

\* C14: in run mode a failing test is run again from scratch, beforeEach
\* included, at most 2 more times (3 attempts) and is reported failed only
\* when every attempt failed; in open mode it is attempted exactly once.  The
\* dispatcher runs once per attempt of the whole test, never on its own.
C14_BoundedWholeTestRetry ==
  LET allowed == IF mode = "run" THEN 3 ELSE 1
  IN /\ attempt \in 1..allowed
     /\ Len(outcomes) <= allowed
     /\ hooksRun = IF rstage = "hook" THEN attempt - 1 ELSE attempt
     /\ dispatches = Len(outcomes)
     /\ \A i \in 1..(Len(outcomes) - 1) : outcomes[i] = "failed"
     /\ rstage = "reported" =>
          /\ reported[Len(reported)] = outcomes[Len(outcomes)]
          /\ reported[Len(reported)] = "failed" =>
               /\ Len(outcomes) = allowed
               /\ \A i \in 1..Len(outcomes) : outcomes[i] = "failed"

C14_Witness ==
  /\ mode = "run"
  /\ rstage = "reported"
  /\ outcomes = <<"failed", "failed", "failed">>
  /\ hooksRun = 3
  /\ reported[Len(reported)] = "failed"

\* C15: the uncaught:exception handler returns false, and the test goes on,
\* exactly when the message contains 'Cannot read properties of null' or
\* 'Script error'; for every other message it returns true and the test fails.
C15_HandlerIgnoresTwoPatterns ==
  hstage = "handled" =>
    /\ handlerReturn = FALSE <=>
         (includes(errMessage, NullPattern) \/ includes(errMessage, ScriptPattern))
    /\ testFailed = handlerReturn

C15_Witness ==
  /\ hstage = "handled"
  /\ errMessage = JavaPrefix \o ScriptPattern \o DotSuffix
  /\ handlerReturn = FALSE
  /\ ~testFailed

\* a message without either pattern fails the test
C15_WitnessOther ==
  /\ hstage = "handled"
  /\ errMessage = UncaughtPrefix \o LowerScriptText
  /\ handlerReturn = TRUE
  /\ testFailed

\* the call loginPage.login(users.validUser.username, users.validUser.password)
ValidLoginCall ==
  [op |-> "login", username |-> ValidUsername, password |-> ValidPassword]

C16_WitnessByFields ==
  /\ lastCall.op = "clickSubmit"
  /\ submitted = <<Form(ValidUsername, ValidPassword)>>
  /\ Includes(location, SecureUrl)

C19_WitnessAfterLogout ==
  /\ lastCall.op = "visitSecure"
  /\ ~session
  /\ cycles >= 1
  /\ Includes(location, LoginUrl)

C20_WitnessEmpty ==
  /\ lastCall.op = "clickSubmit"
  /\ submitted = <<Form("", "")>>
  /\ flash = Banner(InvalidUsername, "error")

\* the valid username with an empty password
C20_WitnessPassword ==
  /\ lastCall.op = "clickSubmit"
  /\ submitted = <<Form(ValidUsername, "")>>
  /\ flash = Banner(InvalidPassword, "error")

\* ------------------------------------------------------------------------
\* Well-formedness of the state
\* ------------------------------------------------------------------------
TypeOK ==
  /\ pageKind \in PageKinds
  /\ cols \in [1..2 -> {MarkupA, MarkupB, Placeholder, ""}]
  /\ dragSrcEl \in 0..2
  /\ phase \in {"body", "run"}
  /\ Len(queue) <= MaxCommands
  /\ pc \in {"idle", "getSource", "getTarget", "newDataTransfer", "setData",
             "dragstart", "dragover", "drop", "dragend", "verify"}
  /\ sourceEl \in 0..2
  /\ targetEl \in 0..2
  /\ dataTransfer \in 0..Len(dts)
  /\ status \in {"running", "failed"}
  /\ failure \in {"none", "lookup", "assertion"}

====
